---- MODULE Spec2Model ----
(***************************************************************************)
(* Model of the chunked file store of 4vn/filestore (mongodb/mongodb.go).  *)
(*                                                                         *)
(* The store keeps two collections: filesColl holds one manifest document  *)
(* per object, chunksColl holds the chunk documents, with a unique index   *)
(* on (files_id, n).  Put, Get, FastGet and Delete are modelled one store  *)
(* operation per step, so that a store failure can hit any single          *)
(* operation and calls of different callers can interleave.                *)
(*                                                                         *)
(* Left out: upload_date and md5 of the manifest (written by Put, read by  *)
(* no operation), and Close.                                               *)
(***************************************************************************)
EXTENDS Integers, Sequences, FiniteSets, TLC

(***************************************************************************)
(* Bounds                                                                  *)
(***************************************************************************)
\* longest buffer a caller puts
MaxLen == 5
\* number of calls made in one run
MaxCalls == 3
\* number of concurrent callers
NumProcs == 2

\* mongodb.go:18 sets 8 * 1024 * 1024; the model scales the chunk size down
\* so that buffers of a few bytes span several chunks.
ChunkSize == 2

Procs == 1..NumProcs

(***************************************************************************)
(* Data                                                                    *)
(***************************************************************************)
Min(a, b) == IF a < b THEN a ELSE b

\* Byte patterns: byte i (0-based) of pattern s is (s + i) % 256.  Bytes at
\* different offsets of one buffer differ, and pattern 0 starts with a zero
\* byte.
Pattern(len, s) == [i \in 1..len |-> (s + i - 1) % 256]
Buffers == {Pattern(len, 0) : len \in 0..MaxLen} \cup {Pattern(MaxLen, 1)}

\* "no data": the nil slice the read operations return with an error.
\* -1 is no byte value, so NoData differs from every buffer.
NoData == <<-1>>

\* Go values of the metadata map: dynamic type and printed value.
GoValues == {[t |-> "string", v |-> "hello.txt"], [t |-> "int", v |-> "7"]}
Keys == {"filename"}

\* map[string]interface{} values: the nil map, the empty map, and maps with
\* one entry.  A map is the set of its <<key, value>> entries.
NilMap == [t |-> "nilmap", m |-> {}]
MapOf(entries) == [t |-> "map", m |-> entries]
Metadatas == {NilMap, MapOf({})} \cup {MapOf({<<k, v>>}) : k \in Keys, v \in GoValues}

\* BSON encoding of a Go value inside a document (bson.M marshalling done
\* by InsertOne): an int that fits 32 bits is written as int32.
BsonValue(v) == IF v.t = "int" THEN [t |-> "int32", v |-> v.v] ELSE v

\* BSON encoding of the "metadata" field: a nil map is written as null,
\* any other map as an embedded document.
BsonMetadata(md) ==
    IF md.t = "nilmap" THEN [t |-> "null", m |-> {}]
    ELSE [t |-> "document", m |-> {<<e[1], BsonValue(e[2])>> : e \in md.m}]

\* Decode(&fileDoc) into a bson.M: an embedded document becomes a bson.M,
\* null becomes the nil interface; int32 and string stay what they are.
DecodedMetadata(bm) ==
    IF bm.t = "null" THEN [t |-> "nil", m |-> {}]
    ELSE [t |-> "map", m |-> bm.m]

\* fileDoc["metadata"].(bson.M): the assertion panics on anything that is
\* not a bson.M.
AssertionPanics(dm) == dm.t # "map"

\* What callers put: every buffer with the metadata of the README, and every
\* metadata with one buffer.
FileNameMap == MapOf({<<"filename", [t |-> "string", v |-> "hello.txt"]>>})
PutInputs ==
    {<<B, FileNameMap>> : B \in Buffers} \cup {<<Pattern(ChunkSize + 1, 0), M>> : M \in Metadatas}
\* What concurrent callers put.
ConcInputs == {<<Pattern(ChunkSize + 1, 0), FileNameMap>>, <<Pattern(ChunkSize + 1, 1), FileNameMap>>}
\* What callers put before and after the build is replaced.
ChangeInputs == {<<Pattern(MaxLen, 0), FileNameMap>>, <<Pattern(ChunkSize + 1, 1), FileNameMap>>}
\* What concurrent callers put when the metadata matters: no metadata, and a
\* number.
MetaInputs ==
    {<<Pattern(ChunkSize + 1, 0), NilMap>>,
     <<Pattern(ChunkSize + 1, 1), MapOf({<<"filename", [t |-> "int", v |-> "7"]>>})>>}

\* ObjectIDs and their external form.  NewObjectID hands out 1, 2, ...;
\* MaxCalls + 1 is a well-formed id that is never handed out.
ObjectIDs == 1..(MaxCalls + 1)
Hex(oid) == <<"hex", oid>>
BadId == <<"zz", 0>>
EmptyId == <<"", 0>>
IdStrings == {Hex(o) : o \in ObjectIDs} \cup {BadId}

\* primitive.ObjectIDFromHex
ObjectIDFromHex(s) ==
    IF s[1] = "hex" THEN [err |-> "nil", oid |-> s[2]]
    ELSE [err |-> "InvalidId", oid |-> 0]

\* make([]byte, n)
Make(n) == [i \in 1..n |-> 0]

\* buffer[start:end]
Slice(buf, start, end) == SubSeq(buf, start + 1, end)

\* copy(dst[off:], src), for off <= len(dst)
CopyAt(dst, off, src) ==
    [i \in 1..Len(dst) |->
        IF i > off /\ i <= off + Len(src) THEN src[i - off] ELSE dst[i]]

(***************************************************************************)
(* State                                                                   *)
(***************************************************************************)
VARIABLES
    filesColl,    \* the manifests: set of documents
    chunksColl,   \* the chunks: set of documents
    nextId,       \* the next ObjectID NewObjectID hands out
    defaultChunkSize,    \* the ChunkSize of the build that is running
    pc,           \* per caller: where its call stands
    call,         \* per caller: the call and its arguments
    fileID,       \* per caller: the ObjectID of the call
    start,        \* per caller: Put's start / Get's offset
    chunkNumber,  \* per caller: Put's chunkNumber
    fileDoc,      \* per caller: the manifest Get / FastGet read
    buffer,       \* per caller: the destination buffer of Get / FastGet
    task,         \* per caller: the chunk-fetch goroutines of FastGet
    taskRes,      \* per caller: what each goroutine fetched
    chunkChan,    \* per caller: the completion channel of FastGet
    recvd,        \* per caller: the collector's loop counter
    leftover,     \* per caller: the goroutines of FastGet calls that have returned
    result,       \* per caller: what the call returned
    putLog,       \* history: what each successful Put stored
    getLog,       \* history: what the last Get of an id some Put returned gave
    unlinked,     \* history: ObjectIDs whose manifest deletion a Delete has made
    received,     \* history: per caller, the results its collector received
    returned,     \* history: ObjectIDs a Put returned
    deleted,      \* history: ObjectIDs a Delete returned nil for and no Put created since
    stray,        \* history: ObjectIDs a Delete was called with that no Put had returned
    calls,        \* history: number of calls made
    fetches       \* history: per caller, the chunk fetches its call started

vars == <<filesColl, chunksColl, nextId, defaultChunkSize, pc, call, fileID, start, chunkNumber,
          fileDoc, buffer, task, taskRes, chunkChan, recvd, leftover, result,
          putLog, getLog, unlinked, received, returned, deleted, stray, calls, fetches>>

storeVars == <<filesColl, chunksColl>>
fastVars == <<task, taskRes, chunkChan, recvd, received>>
histVars == <<putLog, getLog, unlinked, returned, deleted, stray>>

NoCall == [op |-> "none", buffer |-> <<>>, metadata |-> NilMap, fileId |-> EmptyId,
           issued |-> FALSE, afterDelete |-> FALSE, afterFailure |-> FALSE]
NoDoc == [_id |-> 0, length |-> 0, chunk_size |-> 0, metadata |-> [t |-> "null", m |-> {}]]
NoResult == [err |-> "none", fileId |-> EmptyId, data |-> NoData, metadata |-> NilMap]
NoLog == [buffer |-> NoData, metadata |-> NilMap, chunk_size |-> 0, overlap |-> FALSE]

\* what Get and FastGet return on success
OkResult(data, md) == [err |-> "nil", fileId |-> EmptyId, data |-> data, metadata |-> md]

\* what an operation returns with an error: zero values and the error
ErrResult(e) == [err |-> e, fileId |-> EmptyId, data |-> NoData, metadata |-> NilMap]

Init ==
    /\ filesColl = {}
    /\ chunksColl = {}
    /\ nextId = 1
    /\ defaultChunkSize = ChunkSize
    /\ pc = [p \in Procs |-> "idle"]
    /\ call = [p \in Procs |-> NoCall]
    /\ fileID = [p \in Procs |-> 0]
    /\ start = [p \in Procs |-> 0]
    /\ chunkNumber = [p \in Procs |-> 0]
    /\ fileDoc = [p \in Procs |-> NoDoc]
    /\ buffer = [p \in Procs |-> <<>>]
    /\ task = [p \in Procs |-> <<>>]
    /\ taskRes = [p \in Procs |-> <<>>]
    /\ chunkChan = [p \in Procs |-> <<>>]
    /\ recvd = [p \in Procs |-> 0]
    /\ leftover = [p \in Procs |-> <<>>]
    /\ result = [p \in Procs |-> NoResult]
    /\ putLog = [o \in ObjectIDs |-> NoLog]
    /\ getLog = [o \in ObjectIDs |-> NoResult]
    /\ unlinked = {}
    /\ received = [p \in Procs |-> <<>>]
    /\ returned = {}
    /\ deleted = {}
    /\ stray = {}
    /\ calls = 0
    /\ fetches = [p \in Procs |-> 0]

(***************************************************************************)
(* The collaborator store                                                  *)
(***************************************************************************)
\* a lookup whose filter matches every manifest
FindManifestAny(oid) == filesColl

\* filesColl.FindOne({"_id": oid})
FindManifest(oid) == {d \in filesColl : d._id = oid}

\* a DeleteOne whose filter matches no manifest
DeleteOneNone(oid) == filesColl

\* filesColl.DeleteOne({"_id": oid}): the manifests that remain
DeleteOne(oid) == filesColl \ FindManifest(oid)

\* a delete that removes one chunk of the object only
DeleteManyFirst(oid) == {c \in chunksColl : c.files_id # oid \/ c.n # 0}

\* chunksColl.DeleteMany({"files_id": oid}): the chunks that remain
DeleteMany(oid) == {c \in chunksColl : c.files_id # oid}

\* chunksColl.FindOne({"files_id": oid, "n": n})
FindChunk(oid, n) == {c \in chunksColl : c.files_id = oid /\ c.n = n}

\* The unique index on (files_id, n) rejects a second chunk with the same key.
DuplicateChunk(doc) == FindChunk(doc.files_id, doc.n) # {}

\* _id is unique in every collection.
DuplicateManifest(doc) == FindManifest(doc._id) # {}

(***************************************************************************)
(* Put                                                                     *)
(***************************************************************************)
\* mongodb.go:72-79: a fresh ObjectID, the loop variables
PutCall(p, B, M) ==
    /\ pc[p] = "idle"
    /\ calls < MaxCalls
    /\ calls' = calls + 1
    /\ nextId' = nextId + 1
    /\ fileID' = [fileID EXCEPT ![p] = nextId]
    /\ call' = [call EXCEPT ![p] = [NoCall EXCEPT !.op = "Put", !.buffer = B, !.metadata = M]]
    /\ start' = [start EXCEPT ![p] = 0]
    /\ chunkNumber' = [chunkNumber EXCEPT ![p] = 0]
    /\ pc' = [pc EXCEPT ![p] = "PutLoop"]
    /\ fetches' = [fetches EXCEPT ![p] = 0]
    /\ UNCHANGED <<leftover, storeVars, defaultChunkSize, fileDoc, buffer, fastVars, result, histVars>>

\* a chunk document numbered from 1
ChunkDocOneBased(oid, n, buf, st) ==
    [files_id |-> oid, n |-> n + 1, data |-> Slice(buf, st, Min(st + defaultChunkSize, Len(buf)))]

\* a chunk document whose slice ends one byte early
ChunkDocShort(oid, n, buf, st) ==
    [files_id |-> oid, n |-> n, data |-> Slice(buf, st, Min(st + defaultChunkSize - 1, Len(buf)))]

\* a chunk document without data
ChunkDocEmpty(oid, n, buf, st) == [files_id |-> oid, n |-> n, data |-> <<>>]

\* a chunk document that runs one byte into the next chunk's slice
ChunkDocOverlap(oid, n, buf, st) ==
    [files_id |-> oid, n |-> n, data |-> Slice(buf, st, Min(st + defaultChunkSize + 1, Len(buf)))]

\* the chunk document Put builds in one loop iteration (mongodb.go:82-93)
ChunkDoc(oid, n, buf, st) ==
    [files_id |-> oid, n |-> n, data |-> Slice(buf, st, Min(st + defaultChunkSize, Len(buf)))]

\* a chunk loop that removes the chunks it inserted when an insert fails
PutChunkRollsBack(p, fail) ==
    /\ pc[p] = "PutLoop"
    /\ start[p] < Len(call[p].buffer)
    /\ LET doc == ChunkDoc(fileID[p], chunkNumber[p], call[p].buffer, start[p])
           err == IF fail THEN "StoreUnavailable"
                  ELSE IF DuplicateChunk(doc) THEN "DuplicateKey" ELSE "nil"
       IN IF err # "nil"
          THEN /\ result' = [result EXCEPT ![p] = ErrResult(err)]
               /\ pc' = [pc EXCEPT ![p] = "done"]
               /\ chunksColl' = DeleteMany(fileID[p])
               /\ UNCHANGED <<start, chunkNumber>>
          ELSE /\ chunksColl' = chunksColl \cup {doc}
               /\ start' = [start EXCEPT ![p] = start[p] + defaultChunkSize]
               /\ chunkNumber' = [chunkNumber EXCEPT ![p] = chunkNumber[p] + 1]
               /\ UNCHANGED <<result, pc>>
    /\ UNCHANGED <<leftover, filesColl, nextId, defaultChunkSize, call, fileID, fileDoc, buffer, fastVars,
                   histVars, calls, fetches>>

\* a chunk loop that goes on to the next chunk when an insert fails
PutChunkSkipsFailure(p, fail) ==
    /\ pc[p] = "PutLoop"
    /\ start[p] < Len(call[p].buffer)
    /\ LET doc == ChunkDoc(fileID[p], chunkNumber[p], call[p].buffer, start[p])
       IN /\ chunksColl' = IF fail \/ DuplicateChunk(doc) THEN chunksColl ELSE chunksColl \cup {doc}
          /\ start' = [start EXCEPT ![p] = start[p] + defaultChunkSize]
          /\ chunkNumber' = [chunkNumber EXCEPT ![p] = chunkNumber[p] + 1]
    /\ UNCHANGED <<leftover, filesColl, nextId, defaultChunkSize, pc, call, fileID, fileDoc, buffer, result,
                   fastVars, histVars, calls, fetches>>

\* mongodb.go:81-101: one iteration of the chunk loop
PutChunk(p, fail) ==
    /\ pc[p] = "PutLoop"
    /\ start[p] < Len(call[p].buffer)
    /\ LET doc == ChunkDoc(fileID[p], chunkNumber[p], call[p].buffer, start[p])
           err == IF fail THEN "StoreUnavailable"
                  ELSE IF DuplicateChunk(doc) THEN "DuplicateKey" ELSE "nil"
       IN IF err # "nil"
          THEN /\ result' = [result EXCEPT ![p] = ErrResult(err)]
               /\ pc' = [pc EXCEPT ![p] = "done"]
               /\ UNCHANGED <<chunksColl, start, chunkNumber>>
          ELSE /\ chunksColl' = chunksColl \cup {doc}
               /\ start' = [start EXCEPT ![p] = start[p] + defaultChunkSize]
               /\ chunkNumber' = [chunkNumber EXCEPT ![p] = chunkNumber[p] + 1]
               /\ UNCHANGED <<result, pc>>
    /\ UNCHANGED <<leftover, filesColl, nextId, defaultChunkSize, call, fileID, fileDoc, buffer, fastVars,
                   histVars, calls, fetches>>

\* the manifest Put builds (mongodb.go:103-111)
FileDoc(oid, buf, md) ==
    [_id |-> oid, length |-> Len(buf), chunk_size |-> defaultChunkSize, metadata |-> BsonMetadata(md)]

\* mongodb.go:103-119: the manifest insert and the return
PutManifest(p, fail) ==
    /\ pc[p] = "PutLoop"
    /\ start[p] >= Len(call[p].buffer)
    /\ LET doc == FileDoc(fileID[p], call[p].buffer, call[p].metadata)
           err == IF fail THEN "StoreUnavailable"
                  ELSE IF DuplicateManifest(doc) THEN "DuplicateKey" ELSE "nil"
       IN IF err # "nil"
          THEN /\ result' = [result EXCEPT ![p] = ErrResult(err)]
               /\ UNCHANGED <<filesColl, putLog, returned, deleted>>
          ELSE /\ filesColl' = filesColl \cup {doc}
               /\ deleted' = deleted \ {fileID[p]}
               /\ result' = [result EXCEPT ![p] =
                     [err |-> "nil", fileId |-> Hex(fileID[p]), data |-> NoData, metadata |-> NilMap]]
               /\ putLog' = [putLog EXCEPT ![fileID[p]] =
                     [buffer |-> call[p].buffer, metadata |-> call[p].metadata,
                      chunk_size |-> defaultChunkSize,
                      overlap |-> (\E q \in Procs \ {p} : pc[q] = "PutLoop" /\ start[q] > 0)]]
               /\ returned' = returned \cup {fileID[p]}
    /\ pc' = [pc EXCEPT ![p] = "done"]
    /\ UNCHANGED <<leftover, chunksColl, nextId, defaultChunkSize, call, fileID, start, chunkNumber, fileDoc, buffer,
                   fastVars, getLog, unlinked, stray, calls, fetches>>

(***************************************************************************)
(* Get                                                                     *)
(***************************************************************************)
\* the call record of Get, FastGet and Delete; issued and afterDelete note
\* what was known of the id when the call was made, afterFailure that a call
\* of another caller had returned an error by then
IdCall(name, id) ==
    LET parsed == ObjectIDFromHex(id)
    IN [NoCall EXCEPT !.op = name, !.fileId = id,
                      !.issued = (parsed.err = "nil" /\ parsed.oid \in returned),
                      !.afterDelete = (parsed.err = "nil" /\ parsed.oid \in deleted),
                      !.afterFailure = (\E q \in Procs : pc[q] = "done" /\ result[q].err # "nil")]

\* mongodb.go:123-126 (Get), 160-163 (FastGet), 215-218 (Delete): parse the id
ParseCall(p, name, id, next) ==
    /\ pc[p] = "idle"
    /\ calls < MaxCalls
    /\ calls' = calls + 1
    /\ call' = [call EXCEPT ![p] = IdCall(name, id)]
    /\ fetches' = [fetches EXCEPT ![p] = 0]
    /\ LET parsed == ObjectIDFromHex(id)
       IN /\ IF parsed.err # "nil"
             THEN /\ result' = [result EXCEPT ![p] = ErrResult(parsed.err)]
                  /\ pc' = [pc EXCEPT ![p] = "done"]
                  /\ UNCHANGED fileID
             ELSE /\ fileID' = [fileID EXCEPT ![p] = parsed.oid]
                  /\ pc' = [pc EXCEPT ![p] = next]
                  /\ UNCHANGED result
          /\ stray' = IF name = "Delete" /\ parsed.err = "nil" /\ parsed.oid \notin returned
                       THEN stray \cup {parsed.oid} ELSE stray
    /\ UNCHANGED <<leftover, storeVars, nextId, defaultChunkSize, start, chunkNumber, fileDoc, buffer, fastVars,
                   putLog, getLog, unlinked, returned, deleted>>

GetCall(p, id) == ParseCall(p, "Get", id, "GetManifest")

\* the chunk size of the running build, whatever the manifest records
BuildChunkSize(doc) == defaultChunkSize

\* mongodb.go:136, 172: the chunk size Get and FastGet work with
ReadChunkSize(doc) == doc.chunk_size

\* the outcome of FindOne(...).Decode on the manifest and of the three type
\* assertions (mongodb.go:128-137, 165-173)
ManifestErr(oid, fail) ==
    IF fail THEN "StoreUnavailable"
    ELSE IF FindManifest(oid) = {} THEN "NotFound"
    ELSE IF AssertionPanics(DecodedMetadata((CHOOSE d \in FindManifest(oid) : TRUE).metadata))
         THEN "panic"
    ELSE "nil"

\* history: the result of a Get that no store failure cut short, for an id
\* that had been returned when Get was called
LogGet(p, res) ==
    getLog' = IF call[p].issued /\ res.err # "StoreUnavailable"
              THEN [getLog EXCEPT ![fileID[p]] = res] ELSE getLog

\* mongodb.go:128-142: read the manifest, allocate the buffer; with nothing
\* to read the loop is skipped and Get returns (mongodb.go:156)
GetManifest(p, fail) ==
    /\ pc[p] = "GetManifest"
    /\ LET err == ManifestErr(fileID[p], fail)
           doc == CHOOSE d \in FindManifest(fileID[p]) : TRUE
       IN IF err # "nil"
          THEN /\ result' = [result EXCEPT ![p] = ErrResult(err)]
               /\ pc' = [pc EXCEPT ![p] = "done"]
               /\ LogGet(p, ErrResult(err))
               /\ UNCHANGED <<fileDoc, buffer, start>>
          ELSE /\ fileDoc' = [fileDoc EXCEPT ![p] = doc]
               /\ buffer' = [buffer EXCEPT ![p] = Make(doc.length)]
               /\ start' = [start EXCEPT ![p] = 0]
               /\ IF 0 < doc.length
                  THEN /\ pc' = [pc EXCEPT ![p] = "GetLoop"]
                       /\ UNCHANGED <<result, getLog>>
                  ELSE /\ pc' = [pc EXCEPT ![p] = "done"]
                       /\ result' = [result EXCEPT ![p] =
                             OkResult(Make(doc.length), DecodedMetadata(doc.metadata))]
                       /\ LogGet(p, OkResult(Make(doc.length), DecodedMetadata(doc.metadata)))
    /\ UNCHANGED <<leftover, storeVars, nextId, defaultChunkSize, call, fileID, chunkNumber, fastVars,
                   putLog, unlinked, returned, deleted, stray, calls, fetches>>

\* a read loop that steps over a chunk it cannot fetch
GetChunkSkips(p, fail) ==
    /\ pc[p] = "GetLoop"
    /\ start[p] < fileDoc[p].length
    /\ fetches' = [fetches EXCEPT ![p] = Min(fetches[p] + 1, MaxLen + 1)]
    /\ LET found == FindChunk(fileID[p], start[p] \div fileDoc[p].chunk_size)
           chunkData == IF fail \/ found = {}
                        THEN Make(Min(fileDoc[p].chunk_size, fileDoc[p].length - start[p]))
                        ELSE (CHOOSE c \in found : TRUE).data
       IN /\ buffer' = [buffer EXCEPT ![p] = CopyAt(buffer[p], start[p], chunkData)]
          /\ start' = [start EXCEPT ![p] = start[p] + Len(chunkData)]
          /\ IF start[p] + Len(chunkData) < fileDoc[p].length
             THEN UNCHANGED <<pc, result, getLog>>
             ELSE /\ pc' = [pc EXCEPT ![p] = "done"]
                  /\ result' = [result EXCEPT ![p] =
                        OkResult(CopyAt(buffer[p], start[p], chunkData),
                                 DecodedMetadata(fileDoc[p].metadata))]
                  /\ LogGet(p, OkResult(CopyAt(buffer[p], start[p], chunkData),
                                        DecodedMetadata(fileDoc[p].metadata)))
    /\ UNCHANGED <<leftover, storeVars, nextId, defaultChunkSize, call, fileID, chunkNumber, fileDoc, fastVars,
                   putLog, unlinked, returned, deleted, stray, calls>>

\* mongodb.go:142-156: one iteration of the read loop; start is offset
GetChunk(p, fail) ==
    /\ pc[p] = "GetLoop"
    /\ start[p] < fileDoc[p].length
    /\ fetches' = [fetches EXCEPT ![p] = Min(fetches[p] + 1, MaxLen + 1)]
    /\ LET found == FindChunk(fileID[p], start[p] \div ReadChunkSize(fileDoc[p]))
           err == IF fail THEN "StoreUnavailable"
                  ELSE IF found = {} THEN "NotFound" ELSE "nil"
           chunkData == (CHOOSE c \in found : TRUE).data
       IN IF err # "nil"
          THEN /\ result' = [result EXCEPT ![p] = ErrResult(err)]
               /\ pc' = [pc EXCEPT ![p] = "done"]
               /\ LogGet(p, ErrResult(err))
               /\ UNCHANGED <<buffer, start>>
          ELSE /\ buffer' = [buffer EXCEPT ![p] = CopyAt(buffer[p], start[p], chunkData)]
               /\ start' = [start EXCEPT ![p] = start[p] + Len(chunkData)]
               /\ IF start[p] + Len(chunkData) < fileDoc[p].length
                  THEN UNCHANGED <<pc, result, getLog>>
                  ELSE /\ pc' = [pc EXCEPT ![p] = "done"]
                       /\ result' = [result EXCEPT ![p] =
                             OkResult(CopyAt(buffer[p], start[p], chunkData),
                                      DecodedMetadata(fileDoc[p].metadata))]
                       /\ LogGet(p, OkResult(CopyAt(buffer[p], start[p], chunkData),
                                             DecodedMetadata(fileDoc[p].metadata)))
    /\ UNCHANGED <<leftover, storeVars, nextId, defaultChunkSize, call, fileID, chunkNumber, fileDoc, fastVars,
                   putLog, unlinked, returned, deleted, stray, calls>>

(***************************************************************************)
(* FastGet                                                                 *)
(***************************************************************************)
FastGetCall(p, id) == ParseCall(p, "FastGet", id, "FastGetManifest")

\* mongodb.go:176
NumChunks(fileSize, chunkSize) == (fileSize + chunkSize - 1) \div chunkSize

\* a channel one slot short
ChanCapShort(numChunks) == numChunks - 1

\* mongodb.go:184: the capacity of chunkChan
ChanCap(numChunks) == numChunks

\* mongodb.go:165-198: read the manifest, allocate the buffer and the channel,
\* start one goroutine per chunk; with no chunk both loops are skipped and
\* FastGet returns (mongodb.go:211)
FastGetManifest(p, fail) ==
    /\ pc[p] = "FastGetManifest"
    /\ LET err == ManifestErr(fileID[p], fail)
           doc == CHOOSE d \in FindManifest(fileID[p]) : TRUE
           numChunks == NumChunks(doc.length, ReadChunkSize(doc))
       IN IF err # "nil"
          THEN /\ result' = [result EXCEPT ![p] = ErrResult(err)]
               /\ pc' = [pc EXCEPT ![p] = "done"]
               /\ UNCHANGED <<fileDoc, buffer, fastVars, fetches>>
          ELSE /\ fileDoc' = [fileDoc EXCEPT ![p] = doc]
               /\ buffer' = [buffer EXCEPT ![p] = Make(doc.length)]
               /\ task' = [task EXCEPT ![p] = [i \in 1..numChunks |-> "fetch"]]
               /\ taskRes' = [taskRes EXCEPT ![p] = <<>>]
               /\ chunkChan' = [chunkChan EXCEPT ![p] = <<>>]
               /\ recvd' = [recvd EXCEPT ![p] = 0]
               /\ received' = [received EXCEPT ![p] = <<>>]
               /\ fetches' = [fetches EXCEPT ![p] = numChunks]
               /\ IF 0 < numChunks
                  THEN /\ pc' = [pc EXCEPT ![p] = "FastGetCollect"]
                       /\ UNCHANGED result
                  ELSE /\ pc' = [pc EXCEPT ![p] = "done"]
                       /\ result' = [result EXCEPT ![p] =
                             OkResult(Make(doc.length), DecodedMetadata(doc.metadata))]
    /\ UNCHANGED <<leftover, storeVars, nextId, defaultChunkSize, call, fileID, start, chunkNumber, histVars, calls>>

\* a result that does not carry the index of its chunk
ChunkResultNoIndex(oid, chunkIndex, fail) ==
    LET found == FindChunk(oid, chunkIndex)
    IN IF fail THEN [index |-> 0, data |-> NoData, err |-> "StoreUnavailable"]
       ELSE IF found = {} THEN [index |-> 0, data |-> NoData, err |-> "NotFound"]
       ELSE [index |-> 0, data |-> (CHOOSE c \in found : TRUE).data, err |-> "nil"]

\* a fetch that reports a chunk it did not find as an empty chunk
ChunkResultEmpty(oid, chunkIndex, fail) ==
    LET found == FindChunk(oid, chunkIndex)
    IN IF fail THEN [index |-> chunkIndex, data |-> NoData, err |-> "StoreUnavailable"]
       ELSE IF found = {} THEN [index |-> chunkIndex, data |-> <<>>, err |-> "nil"]
       ELSE [index |-> chunkIndex, data |-> (CHOOSE c \in found : TRUE).data, err |-> "nil"]

\* what the goroutine for chunkIndex puts on the channel (mongodb.go:189-196)
ChunkResult(oid, chunkIndex, fail) ==
    LET found == FindChunk(oid, chunkIndex)
    IN IF fail THEN [index |-> chunkIndex, data |-> NoData, err |-> "StoreUnavailable"]
       ELSE IF found = {} THEN [index |-> chunkIndex, data |-> NoData, err |-> "NotFound"]
       ELSE [index |-> chunkIndex, data |-> (CHOOSE c \in found : TRUE).data, err |-> "nil"]

\* mongodb.go:189-195: the goroutine of chunk i - 1 fetches its chunk
TaskFetch(p, i, fail) ==
    /\ i \in DOMAIN task[p]
    /\ task[p][i] = "fetch"
    /\ task' = [task EXCEPT ![p][i] = "send"]
    /\ taskRes' = [taskRes EXCEPT ![p] =
          [j \in DOMAIN taskRes[p] \cup {i} |->
              IF j = i THEN ChunkResult(fileID[p], i - 1, fail) ELSE taskRes[p][j]]]
    /\ UNCHANGED <<leftover, storeVars, nextId, defaultChunkSize, pc, call, fileID, start, chunkNumber, fileDoc, buffer,
                   chunkChan, recvd, received, result, histVars, calls, fetches>>

\* mongodb.go:192, 196: the goroutine sends its result and exits; the send
\* waits while the channel is full
TaskSend(p, i) ==
    /\ i \in DOMAIN task[p]
    /\ task[p][i] = "send"
    /\ Len(chunkChan[p]) < ChanCap(Len(task[p]))
    /\ chunkChan' = [chunkChan EXCEPT ![p] = Append(chunkChan[p], taskRes[p][i])]
    /\ task' = [task EXCEPT ![p][i] = "exit"]
    /\ UNCHANGED <<leftover, storeVars, nextId, defaultChunkSize, pc, call, fileID, start, chunkNumber, fileDoc, buffer,
                   taskRes, recvd, received, result, histVars, calls, fetches>>

\* an offset taken from the order of arrival
ArrivalOffset(res, i, chunkSize) == i * chunkSize

\* mongodb.go:206: where the collector copies a result, i being its loop counter
ResultOffset(res, i, chunkSize) == res.index * chunkSize

\* a collector that takes a failed result for an empty chunk
CollectSkipsErrors(p) ==
    /\ pc[p] = "FastGetCollect"
    /\ recvd[p] < Len(task[p])
    /\ chunkChan[p] # <<>>
    /\ chunkChan' = [chunkChan EXCEPT ![p] = Tail(chunkChan[p])]
    /\ received' = [received EXCEPT ![p] = Append(received[p], Head(chunkChan[p]))]
    /\ LET res == Head(chunkChan[p])
           offset == ResultOffset(res, recvd[p], fileDoc[p].chunk_size)
           data == IF res.err # "nil" THEN <<>> ELSE res.data
       IN /\ buffer' = [buffer EXCEPT ![p] = CopyAt(buffer[p], offset, data)]
          /\ recvd' = [recvd EXCEPT ![p] = recvd[p] + 1]
          /\ IF recvd[p] + 1 < Len(task[p])
             THEN UNCHANGED <<pc, result>>
             ELSE /\ pc' = [pc EXCEPT ![p] = "done"]
                  /\ result' = [result EXCEPT ![p] =
                        OkResult(CopyAt(buffer[p], offset, data),
                                 DecodedMetadata(fileDoc[p].metadata))]
    /\ UNCHANGED <<leftover, storeVars, nextId, defaultChunkSize, call, fileID, start, chunkNumber, fileDoc,
                   task, taskRes, histVars, calls, fetches>>

\* mongodb.go:201-211: one iteration of the collector loop
Collect(p) ==
    /\ pc[p] = "FastGetCollect"
    /\ recvd[p] < Len(task[p])
    /\ chunkChan[p] # <<>>
    /\ chunkChan' = [chunkChan EXCEPT ![p] = Tail(chunkChan[p])]
    /\ received' = [received EXCEPT ![p] = Append(received[p], Head(chunkChan[p]))]
    /\ LET res == Head(chunkChan[p])
           offset == ResultOffset(res, recvd[p], ReadChunkSize(fileDoc[p]))
       IN IF res.err # "nil"
          THEN /\ result' = [result EXCEPT ![p] = ErrResult(res.err)]
               /\ pc' = [pc EXCEPT ![p] = "done"]
               /\ UNCHANGED <<buffer, recvd>>
          ELSE IF offset > Len(buffer[p])
          THEN /\ result' = [result EXCEPT ![p] = ErrResult("panic")]
               /\ pc' = [pc EXCEPT ![p] = "done"]
               /\ UNCHANGED <<buffer, recvd>>
          ELSE /\ buffer' = [buffer EXCEPT ![p] = CopyAt(buffer[p], offset, res.data)]
               /\ recvd' = [recvd EXCEPT ![p] = recvd[p] + 1]
               /\ IF recvd[p] + 1 < Len(task[p])
                  THEN UNCHANGED <<pc, result>>
                  ELSE /\ pc' = [pc EXCEPT ![p] = "done"]
                       /\ result' = [result EXCEPT ![p] =
                             OkResult(CopyAt(buffer[p], offset, res.data),
                                      DecodedMetadata(fileDoc[p].metadata))]
    /\ UNCHANGED <<leftover, storeVars, nextId, defaultChunkSize, call, fileID, start, chunkNumber, fileDoc,
                   task, taskRes, histVars, calls, fetches>>

(***************************************************************************)
(* Delete                                                                  *)
(***************************************************************************)
\* mongodb.go:214-218: Delete takes any string
DeleteCall(p, id) == ParseCall(p, "Delete", id, "DeleteManifest")

\* mongodb.go:220-223: DeleteOne on the manifest
DeleteManifest(p, fail) ==
    /\ pc[p] = "DeleteManifest"
    /\ IF fail
       THEN /\ result' = [result EXCEPT ![p] = ErrResult("StoreUnavailable")]
            /\ pc' = [pc EXCEPT ![p] = "done"]
            /\ UNCHANGED <<filesColl, unlinked>>
       ELSE /\ filesColl' = DeleteOne(fileID[p])
            /\ pc' = [pc EXCEPT ![p] = "DeleteChunks"]
            /\ unlinked' = unlinked \cup {fileID[p]}
            /\ UNCHANGED result
    /\ UNCHANGED <<leftover, chunksColl, nextId, defaultChunkSize, call, fileID, start, chunkNumber, fileDoc, buffer,
                   fastVars, putLog, getLog, returned, deleted, stray, calls, fetches>>

\* mongodb.go:225-230: DeleteMany on the chunks, and the return
DeleteChunks(p, fail) ==
    /\ pc[p] = "DeleteChunks"
    /\ IF fail
       THEN /\ result' = [result EXCEPT ![p] = ErrResult("StoreUnavailable")]
            /\ UNCHANGED <<chunksColl, deleted>>
       ELSE /\ chunksColl' = DeleteMany(fileID[p])
            /\ result' = [result EXCEPT ![p] = ErrResult("nil")]
            /\ deleted' = deleted \cup {fileID[p]}
    /\ pc' = [pc EXCEPT ![p] = "done"]
    /\ UNCHANGED <<leftover, filesColl, nextId, defaultChunkSize, call, fileID, start, chunkNumber, fileDoc, buffer,
                   fastVars, putLog, getLog, unlinked, returned, stray, calls, fetches>>

(***************************************************************************)
(* The caller                                                              *)
(***************************************************************************)
\* the goroutines and the channel a FastGet leaves behind when it returns
\* (mongodb.go:203-204, 211): nothing once every goroutine has exited
Left(p) ==
    IF \A i \in DOMAIN task[p] : task[p][i] = "exit"
    THEN <<>>
    ELSE <<[fileID |-> fileID[p], task |-> task[p], taskRes |-> taskRes[p],
            chunkChan |-> chunkChan[p], taken |-> Len(received[p])]>>

\* The caller takes the result and is free to make its next call; FastGet
\* does not wait for its goroutines (mongodb.go:203-204), which run on with
\* their channel.
Return(p) ==
    /\ pc[p] = "done"
    /\ leftover' = [leftover EXCEPT ![p] = leftover[p] \o Left(p)]
    /\ pc' = [pc EXCEPT ![p] = "idle"]
    /\ call' = [call EXCEPT ![p] = NoCall]
    /\ fileID' = [fileID EXCEPT ![p] = 0]
    /\ start' = [start EXCEPT ![p] = 0]
    /\ chunkNumber' = [chunkNumber EXCEPT ![p] = 0]
    /\ fileDoc' = [fileDoc EXCEPT ![p] = NoDoc]
    /\ buffer' = [buffer EXCEPT ![p] = <<>>]
    /\ task' = [task EXCEPT ![p] = <<>>]
    /\ taskRes' = [taskRes EXCEPT ![p] = <<>>]
    /\ chunkChan' = [chunkChan EXCEPT ![p] = <<>>]
    /\ recvd' = [recvd EXCEPT ![p] = 0]
    /\ received' = [received EXCEPT ![p] = <<>>]
    /\ result' = [result EXCEPT ![p] = NoResult]
    /\ fetches' = [fetches EXCEPT ![p] = 0]
    /\ UNCHANGED <<storeVars, nextId, defaultChunkSize, histVars, calls>>

\* a sequence without its k-th element
Without(seq, k) == [j \in 1..(Len(seq) - 1) |-> IF j < k THEN seq[j] ELSE seq[j + 1]]

\* mongodb.go:189-195: a goroutine of the k-th FastGet left behind fetches
\* its chunk after the call has returned
LeftFetch(p, k, i, fail) ==
    /\ k \in DOMAIN leftover[p]
    /\ i \in DOMAIN leftover[p][k].task
    /\ leftover[p][k].task[i] = "fetch"
    /\ LET o == leftover[p][k]
       IN leftover' = [leftover EXCEPT ![p][k] =
             [o EXCEPT !.task[i] = "send",
                       !.taskRes = [j \in DOMAIN o.taskRes \cup {i} |->
                            IF j = i THEN ChunkResult(o.fileID, i - 1, fail)
                            ELSE o.taskRes[j]]]]
    /\ UNCHANGED <<storeVars, nextId, defaultChunkSize, pc, call, fileID, start, chunkNumber, fileDoc, buffer,
                   fastVars, result, histVars, calls, fetches>>

\* mongodb.go:192, 196: a goroutine of the k-th FastGet left behind sends its
\* result on the channel no collector reads any more, and exits; the send
\* waits while the channel is full; with the last goroutine the channel goes
LeftSend(p, k, i) ==
    /\ k \in DOMAIN leftover[p]
    /\ i \in DOMAIN leftover[p][k].task
    /\ leftover[p][k].task[i] = "send"
    /\ Len(leftover[p][k].chunkChan) < ChanCap(Len(leftover[p][k].task))
    /\ LET o == leftover[p][k]
           sent == [o EXCEPT !.task[i] = "exit",
                             !.chunkChan = Append(o.chunkChan, o.taskRes[i])]
       IN leftover' = [leftover EXCEPT ![p] =
             IF \A j \in DOMAIN sent.task : sent.task[j] = "exit"
             THEN Without(leftover[p], k)
             ELSE [leftover[p] EXCEPT ![k] = sent]]
    /\ UNCHANGED <<storeVars, nextId, defaultChunkSize, pc, call, fileID, start, chunkNumber, fileDoc, buffer,
                   fastVars, result, histVars, calls, fetches>>

Step(p, inputs) ==
    \/ \E in \in inputs : PutCall(p, in[1], in[2])
    \/ \E fail \in BOOLEAN : PutChunk(p, fail)
    \/ \E fail \in BOOLEAN : PutManifest(p, fail)
    \/ \E id \in IdStrings : GetCall(p, id)
    \/ \E fail \in BOOLEAN : GetManifest(p, fail)
    \/ \E fail \in BOOLEAN : GetChunk(p, fail)
    \/ \E id \in IdStrings : FastGetCall(p, id)
    \/ \E fail \in BOOLEAN : FastGetManifest(p, fail)
    \/ \E i \in 1..(MaxLen + 1), fail \in BOOLEAN : TaskFetch(p, i, fail)
    \/ \E i \in 1..(MaxLen + 1) : TaskSend(p, i)
    \/ Collect(p)
    \/ \E id \in IdStrings : DeleteCall(p, id)
    \/ \E fail \in BOOLEAN : DeleteManifest(p, fail)
    \/ \E fail \in BOOLEAN : DeleteChunks(p, fail)
    \/ Return(p)
    \/ \E k \in 1..MaxCalls, i \in 1..(MaxLen + 1), fail \in BOOLEAN : LeftFetch(p, k, i, fail)
    \/ \E k \in 1..MaxCalls, i \in 1..(MaxLen + 1) : LeftSend(p, k, i)

\* mongodb.go:18: a build with another ChunkSize takes over the store; no
\* call is under way when the process is replaced, and the goroutines of the
\* old process end with it
ChangeChunkSize ==
    /\ defaultChunkSize = ChunkSize
    /\ \A p \in Procs : pc[p] = "idle"
    /\ defaultChunkSize' = ChunkSize + 1
    /\ leftover' = [p \in Procs |-> <<>>]
    /\ UNCHANGED <<storeVars, nextId, pc, call, fileID, start, chunkNumber, fileDoc, buffer,
                   fastVars, result, histVars, calls, fetches>>

\* one caller: calls follow one another
Next == Step(1, PutInputs)

Spec == Init /\ [][Next]_vars

\* a step of caller p's Get whose read the store answers
GetStep(p) == GetManifest(p, FALSE) \/ GetChunk(p, FALSE)

\* one caller whose Get is never left waiting for the store
SpecLive == Spec /\ \A p \in Procs : WF_vars(GetStep(p))

\* one caller, and the build is replaced by one with another ChunkSize
NextChange == Step(1, ChangeInputs) \/ ChangeChunkSize

SpecChange == Init /\ [][NextChange]_vars

\* concurrent callers: their store operations interleave
NextConc == \E p \in Procs : Step(p, ConcInputs)

SpecConc == Init /\ [][NextConc]_vars

\* concurrent callers that put objects without metadata and with a number
NextMeta == \E p \in Procs : Step(p, MetaInputs)

SpecMeta == Init /\ [][NextMeta]_vars

(***************************************************************************)
(* Properties                                                              *)
(***************************************************************************)
\* caller p holds the result of a call of operation name
Done(p, name) == pc[p] = "done" /\ call[p].op = name

\* the object of caller p's call was stored by a completed Put before the
\* call and no Delete has made the manifest deletion for its id, before or
\* after that Put returned
Stored(p) == call[p].issued /\ fileID[p] \notin unlinked

\* C1: a Get of an id that Put(B, M) returned, with no Delete in between and
\* no store operation failing, returns B and M and no error.
C1_RoundTrip ==
    \A p \in Procs :
        (Done(p, "Get") /\ Stored(p) /\ result[p].err # "StoreUnavailable")
        => result[p] = OkResult(putLog[fileID[p]].buffer, putLog[fileID[p]].metadata)

\* C2: a FastGet of a stored object that no store failure cuts short returns
\* what Get returned for that object, whatever the order in which the chunk
\* fetches completed.
C2_FastGetEqualsGet ==
    \A p \in Procs :
        (Done(p, "FastGet") /\ Stored(p) /\ result[p].err # "StoreUnavailable"
            /\ getLog[fileID[p]] # NoResult)
        => result[p] = getLog[fileID[p]]

\* a FastGet of several chunks succeeded with its results received out of
\* index order, on an object Get had read
C2_Witness ==
    \E p \in Procs :
        /\ Done(p, "FastGet") /\ Stored(p) /\ result[p].err = "nil"
        /\ getLog[fileID[p]].err = "nil"
        /\ Len(received[p]) >= 2
        /\ received[p][1].index > received[p][2].index

\* C3: a Get called after Delete of the same id returned nil, with no Put
\* having created the id since, returns no data and no metadata, with
\* NotFound unless the manifest lookup itself failed.
C3_GetAfterDelete ==
    \A p \in Procs :
        (Done(p, "Get") /\ call[p].afterDelete)
        => /\ result[p].err \in {"NotFound", "StoreUnavailable"}
           /\ result[p].data = NoData
           /\ result[p].metadata = NilMap

\* a Get of an id that Put returned and Delete deleted returned NotFound
C3_Witness ==
    \E p \in Procs :
        Done(p, "Get") /\ call[p].afterDelete /\ call[p].issued /\ result[p].err = "NotFound"

\* C4: Get and FastGet of an id no Put has returned give an error, no data
\* and no metadata, and start no chunk fetch: InvalidId for a malformed id,
\* NotFound for a well-formed one unless the manifest lookup itself failed.
C4_NeverIssued ==
    \A p \in Procs :
        LET parsed == ObjectIDFromHex(call[p].fileId)
        IN ((Done(p, "Get") \/ Done(p, "FastGet"))
               /\ (parsed.err # "nil" \/ parsed.oid \notin returned))
           => /\ result[p].err = IF parsed.err # "nil" THEN "InvalidId"
                                 ELSE IF result[p].err = "StoreUnavailable"
                                      THEN "StoreUnavailable" ELSE "NotFound"
              /\ result[p].data = NoData
              /\ result[p].metadata = NilMap
              /\ fetches[p] = 0
              /\ task[p] = <<>>

\* a FastGet of the id of a Put that failed after its first chunk, and whose
\* chunk is in the store, returned NotFound
C4_Witness ==
    \E p \in Procs :
        /\ Done(p, "FastGet") /\ result[p].err = "NotFound"
        /\ fileID[p] \notin returned
        /\ \E c \in chunksColl : c.files_id = fileID[p]

\* the chunk documents of object oid
ChunksOf(oid) == {c \in chunksColl : c.files_id = oid}

\* ceil(len / size)
CeilDiv(len, size) == IF len % size = 0 THEN len \div size ELSE len \div size + 1

\* the total length of the data of a set of chunk documents
RECURSIVE SumLen(_)
SumLen(cs) ==
    IF cs = {} THEN 0
    ELSE LET c == CHOOSE x \in cs : TRUE IN Len(c.data) + SumLen(cs \ {c})

\* C5: a Put whose insert of chunk k failed returns the error and the empty
\* id; chunks 0..k-1 of its object, holding their slices of the buffer, are
\* in the store, no chunk with index >= k is, and the object has no manifest;
\* every manifest in the store belongs to an id some Put returned.
C5_PutChunkFailure ==
    /\ \A p \in Procs :
          (Done(p, "Put") /\ result[p].err # "nil" /\ start[p] < Len(call[p].buffer))
          => /\ result[p].fileId = EmptyId
             /\ {c.n : c \in ChunksOf(fileID[p])} = 0..(chunkNumber[p] - 1)
             /\ \A c \in ChunksOf(fileID[p]) :
                   c.data = SubSeq(call[p].buffer, c.n * ChunkSize + 1, (c.n + 1) * ChunkSize)
             /\ FindManifest(fileID[p]) = {}
             /\ fileID[p] \notin returned
    /\ \A d \in filesColl : d._id \in returned

\* a Put of three chunks failed at its second chunk
C5_Witness ==
    \E p \in Procs :
        /\ Done(p, "Put") /\ result[p].err = "StoreUnavailable"
        /\ chunkNumber[p] = 1
        /\ Len(call[p].buffer) > 2 * ChunkSize

\* C6 as stated: in every state, for every manifest in the store, the indices
\* of the object's chunks are exactly 0..N-1 with N = ceil(length /
\* chunk_size), no two chunks share an index, and the lengths of the chunks'
\* data sum to the manifest's length.
C6_ChunkIndices ==
    \A d \in filesColl :
        LET cs == ChunksOf(d._id)
            N == CeilDiv(d.length, d.chunk_size)
        IN /\ {c.n : c \in cs} = 0..(N - 1)
           /\ Cardinality(cs) = N
           /\ SumLen(cs) = d.length

\* C6 amended: in every state, for every manifest in the store whose id no
\* Delete was called with before a Put had returned it, the indices of the
\* object's chunks are exactly 0..N-1 with N = ceil(length / chunk_size), no
\* two chunks share an index, and the lengths of the chunks' data sum to the
\* manifest's length.
C6_ChunkIndicesOfReturnedIds ==
    \A d \in filesColl :
        d._id \notin stray
        => LET cs == ChunksOf(d._id)
               N == CeilDiv(d.length, d.chunk_size)
           IN /\ {c.n : c \in cs} = 0..(N - 1)
              /\ Cardinality(cs) = N
              /\ SumLen(cs) = d.length

\* the store holds a manifest of several chunks whose last chunk is short
\* and whose id no Delete was called with early, next to the chunks of another
\* object
C6_Witness ==
    \E d \in filesColl :
        /\ d._id \notin stray
        /\ d.length > d.chunk_size
        /\ d.length % d.chunk_size # 0
        /\ \E c \in chunksColl : c.files_id # d._id

\* what C6 as stated misses: a Delete called with the id of a Put that had
\* not returned removed chunk 0, and the manifest of that Put is in the store
C6_ChunkLost ==
    \E d \in filesColl :
        d._id \in stray /\ d.length > 0 /\ FindChunk(d._id, 0) = {}

\* C7: a successful Put of a buffer of length L has inserted ceil(L / C) chunks
\* and one manifest with length L; no chunk is longer than C, every chunk but
\* the last has length C, and the last has length L mod C, or C when C
\* divides L.
C7_PutChunking ==
    \A p \in Procs :
        (Done(p, "Put") /\ result[p].err = "nil")
        => LET L == Len(call[p].buffer)
               N == CeilDiv(L, ChunkSize)
               cs == ChunksOf(fileID[p])
           IN /\ Cardinality(cs) = N
              /\ Cardinality(FindManifest(fileID[p])) = 1
              /\ \A d \in FindManifest(fileID[p]) : d.length = L
              /\ \A c \in cs :
                    /\ Len(c.data) <= ChunkSize
                    /\ c.n < N - 1 => Len(c.data) = ChunkSize
                    /\ c.n = N - 1 =>
                          Len(c.data) = IF L % ChunkSize = 0 THEN ChunkSize ELSE L % ChunkSize

\* a Put of a buffer of exactly two chunks succeeded
C7_Witness ==
    \E p \in Procs :
        /\ Done(p, "Put") /\ result[p].err = "nil"
        /\ Len(call[p].buffer) = 2 * ChunkSize

\* a Put of the empty buffer succeeded
C7_WitnessEmpty ==
    \E p \in Procs :
        /\ Done(p, "Put") /\ result[p].err = "nil"
        /\ Len(call[p].buffer) = 0
        /\ ChunksOf(fileID[p]) = {}

\* C8: a Get that returns an error returns no data and no metadata, and when
\* the error came from a chunk fetch that fetch was its last one; a Get that
\* returns success has fetched every chunk and returns the bytes Put stored,
\* also when a Delete of the object runs at the same time.
C8_GetChunkFailure ==
    \A p \in Procs :
        Done(p, "Get")
        => /\ result[p].err # "nil"
                => /\ result[p].data = NoData
                   /\ result[p].metadata = NilMap
                   /\ fetches[p] >= 1
                         => fetches[p] = start[p] \div fileDoc[p].chunk_size + 1
           /\ result[p].err = "nil"
                => /\ result[p].data = putLog[fileID[p]].buffer
                   /\ fetches[p] = CeilDiv(Len(result[p].data), fileDoc[p].chunk_size)

\* a Get fetched its first chunk, found no document for the second one and
\* returned NotFound, its buffer partly filled
C8_Witness ==
    \E p \in Procs :
        /\ Done(p, "Get") /\ result[p].err = "NotFound"
        /\ fetches[p] = 2
        /\ buffer[p] # Make(Len(buffer[p]))

\* C9: a FastGet that started N >= 1 chunk fetches returns success only when
\* its collector has received the N results, one per index, all of them
\* successful; when a fetch has failed it returns an error and no data, and
\* the error is that of the first failed result its collector received.
C9_FastGetCollect ==
    \A p \in Procs :
        (Done(p, "FastGet") /\ task[p] # <<>>)
        => LET N == Len(task[p])
               rs == received[p]
           IN /\ result[p].err = "nil"
                   => /\ Len(rs) = N
                      /\ \A i \in 1..N : rs[i].err = "nil"
                      /\ {rs[i].index : i \in 1..N} = 0..(N - 1)
                      /\ \A i \in 1..N : task[p][i] = "exit"
              /\ result[p].err # "nil"
                   => /\ result[p].data = NoData
                      /\ result[p].metadata = NilMap
                      /\ rs # <<>>
                      /\ rs[Len(rs)].err = result[p].err
                      /\ \A i \in 1..(Len(rs) - 1) : rs[i].err = "nil"
              /\ (\E i \in DOMAIN taskRes[p] : taskRes[p][i].err # "nil")
                   => result[p].err # "nil"

\* a FastGet returned the error of the first failed result while a result
\* with another error waits in the channel
C9_Witness ==
    \E p \in Procs :
        /\ Done(p, "FastGet") /\ result[p].err # "nil"
        /\ chunkChan[p] # <<>>
        /\ Head(chunkChan[p]).err \notin {"nil", result[p].err}

\* C10: a goroutine that has fetched its chunk can always send its result:
\* the channel is never full when a send is due, and the results sent never
\* exceed the N the channel holds, while the collector runs and also for the
\* goroutines left behind after the collector has returned on an error,
\* whatever the caller does next.
C10_SendNeverBlocks ==
    \A p \in Procs :
        /\ \A i \in DOMAIN task[p] : task[p][i] = "send" => ENABLED TaskSend(p, i)
        /\ Len(chunkChan[p]) + Len(received[p]) <= Len(task[p])
        /\ \A k \in DOMAIN leftover[p] :
              /\ \A i \in DOMAIN leftover[p][k].task :
                    leftover[p][k].task[i] = "send" => ENABLED LeftSend(p, k, i)
              /\ Len(leftover[p][k].chunkChan) + leftover[p][k].taken
                    <= Len(leftover[p][k].task)

\* the collector has returned on an error and the caller is in its next
\* call; a goroutine left behind is about to send one more result on a
\* channel that holds results no collector will receive
C10_Witness ==
    \E p \in Procs :
        /\ pc[p] \notin {"idle", "done"}
        /\ \E k \in DOMAIN leftover[p] :
              /\ leftover[p][k].chunkChan # <<>>
              /\ \E i \in DOMAIN leftover[p][k].task : leftover[p][k].task[i] = "send"

\* the collector has returned on an error without receiving the results of
\* the goroutines still to send, and the last of them fills the channel
C10_WitnessFull ==
    \E p \in Procs : \E k \in DOMAIN leftover[p] :
        LET o == leftover[p][k]
        IN /\ Len(o.task) >= 3
           /\ Len(o.chunkChan) + o.taken = Len(o.task) - 1
           /\ \E i \in DOMAIN o.task : o.task[i] = "send"

\* C11: the buffer a successful FastGet returns is the buffer Put stored,
\* in whatever order the chunk results arrived: every result received lies in
\* the returned buffer at offset index * chunk_size.
C11_OrderIndependent ==
    \A p \in Procs :
        (Done(p, "FastGet") /\ result[p].err = "nil")
        => /\ result[p].data = putLog[fileID[p]].buffer
           /\ \A i \in 1..Len(received[p]) :
                 LET r == received[p][i]
                     off == r.index * fileDoc[p].chunk_size
                 IN SubSeq(result[p].data, off + 1, off + Len(r.data)) = r.data

\* a FastGet of three chunks succeeded with its results received last chunk
\* first
C11_Witness ==
    \E p \in Procs :
        /\ Done(p, "FastGet") /\ result[p].err = "nil"
        /\ Len(received[p]) = 3
        /\ received[p][1].index = 2
        /\ received[p][2].index = 1
        /\ received[p][3].index = 0

\* C12: every manifest keeps the chunk size its Put recorded, and a Get or
\* FastGet that succeeds returns the bytes Put stored, also when the chunk
\* size of the running build is no longer the one the object was written
\* with.
C12_ManifestChunkSize ==
    /\ \A d \in filesColl : d.chunk_size = putLog[d._id].chunk_size
    /\ \A p \in Procs :
          ((Done(p, "Get") \/ Done(p, "FastGet")) /\ Stored(p)
              /\ result[p].err \notin {"StoreUnavailable", "panic"})
          => /\ result[p].err = "nil"
             /\ result[p].data = putLog[fileID[p]].buffer

\* a Get of an object of three chunks succeeded under a build whose ChunkSize
\* is not the chunk size of the object
C12_Witness ==
    \E p \in Procs :
        /\ Done(p, "Get") /\ result[p].err = "nil"
        /\ fileDoc[p].chunk_size # defaultChunkSize
        /\ fetches[p] = 3

\* a FastGet of an object of three chunks succeeded under a build whose
\* ChunkSize is not the chunk size of the object
C12_WitnessFastGet ==
    \E p \in Procs :
        /\ Done(p, "FastGet") /\ result[p].err = "nil"
        /\ fileDoc[p].chunk_size # defaultChunkSize
        /\ Len(received[p]) = 3

\* what a step of caller p's Delete does: a failed manifest deletion returns
\* an error and leaves the store as it is; a manifest deletion that succeeds
\* removes the manifest of the id, touches no chunk and goes on to the chunks;
\* a failed chunk deletion returns an error and leaves the chunks, now without
\* manifest; a chunk deletion that succeeds removes every chunk of the object,
\* no other chunk, and returns nil.
DeleteStep(p) ==
    /\ (pc[p] = "DeleteManifest" /\ pc'[p] = "done")
          => /\ result'[p].err # "nil"
             /\ filesColl' = filesColl /\ chunksColl' = chunksColl
    /\ (pc[p] = "DeleteManifest" /\ pc'[p] \notin {"DeleteManifest", "done"})
          => /\ pc'[p] = "DeleteChunks"
             /\ filesColl' = {d \in filesColl : d._id # fileID[p]}
             /\ chunksColl' = chunksColl
    /\ (pc[p] = "DeleteChunks" /\ pc'[p] # "DeleteChunks")
          => /\ pc'[p] = "done"
             /\ filesColl' = filesColl
             /\ FindManifest(fileID[p]) = {}
             /\ \/ result'[p].err # "nil" /\ chunksColl' = chunksColl
                \/ result'[p].err = "nil"
                      /\ chunksColl' = {c \in chunksColl : c.files_id # fileID[p]}

\* C13: Delete deletes the manifest by id, then all chunks of the object; a
\* failure of either deletion makes it return an error, and a chunk deletion
\* that fails after the manifest is gone leaves the chunks as orphans.
C13_DeleteSteps == [][\A p \in Procs : DeleteStep(p)]_vars

\* a Delete of a stored object returned an error with the manifest gone and
\* the chunks still in the store
C13_Witness ==
    \E p \in Procs :
        /\ Done(p, "Delete") /\ result[p].err = "StoreUnavailable"
        /\ call[p].issued
        /\ FindManifest(fileID[p]) = {}
        /\ ChunksOf(fileID[p]) # {}

\* the manifest and the chunks that Put wrote for object oid
ManifestOf(oid) ==
    [_id |-> oid, length |-> Len(putLog[oid].buffer), chunk_size |-> putLog[oid].chunk_size,
     metadata |-> BsonMetadata(putLog[oid].metadata)]
ChunkDocsOf(oid) ==
    {[files_id |-> oid, n |-> n,
      data |-> SubSeq(putLog[oid].buffer, n * putLog[oid].chunk_size + 1,
                      Min((n + 1) * putLog[oid].chunk_size, Len(putLog[oid].buffer)))] :
        n \in 0..(CeilDiv(Len(putLog[oid].buffer), putLog[oid].chunk_size) - 1)}

\* every object a Put stored and no Delete unlinked has the manifest and the
\* chunks that Put wrote
StoredIntact ==
    \A oid \in returned \ unlinked :
        FindManifest(oid) = {ManifestOf(oid)} /\ ChunksOf(oid) = ChunkDocsOf(oid)

\* C14: after a call has returned an error, every object that was stored
\* and that no Delete removed still has the manifest and the chunks Put
\* wrote, and a Get of it made after the failure, with no store failure of its
\* own, returns the bytes and the metadata that were put.
C14_FailureLeavesOthers ==
    /\ StoredIntact
    /\ \A p \in Procs :
          (Done(p, "Get") /\ call[p].afterFailure /\ Stored(p)
              /\ result[p].err # "StoreUnavailable")
          => result[p] = OkResult(putLog[fileID[p]].buffer, putLog[fileID[p]].metadata)

\* the part of C14 that the code keeps: the store is intact and the Get
\* returns the bytes, or panics on the metadata
C14_BytesKept ==
    /\ StoredIntact
    /\ \A p \in Procs :
          (Done(p, "Get") /\ call[p].afterFailure /\ Stored(p)
              /\ result[p].err \notin {"StoreUnavailable", "panic"})
          => result[p].err = "nil" /\ result[p].data = putLog[fileID[p]].buffer

\* a Get of a stored object, made after another caller's call failed,
\* returned the object's bytes
C14_Reached ==
    \E p \in Procs :
        /\ Done(p, "Get") /\ call[p].afterFailure /\ Stored(p)
        /\ result[p].err = "nil"

\* what a step of caller p changes of the caller's own state
Acts(p) ==
    <<pc[p], call[p], start[p], chunkNumber[p], buffer[p], task[p], taskRes[p], chunkChan[p],
      recvd[p], result[p], fetches[p]>>

\* a step of a Get or a FastGet, and a step of a goroutine a FastGet left
\* behind, leaves every manifest and every chunk as it was
ReadStep(p) ==
    /\ (call[p].op \in {"Get", "FastGet"} /\ Acts(p)' # Acts(p)) => UNCHANGED storeVars
    /\ leftover[p]' # leftover[p] => UNCHANGED storeVars

\* C15: the steps of Get and FastGet change no manifest and no chunk, and
\* every Get and FastGet of an object that Put stored and no Delete removed,
\* with no store failure of its own, returns the bytes that were put, whatever
\* the other caller does.
C15_ReadsChangeNothing ==
    /\ [][\A p \in Procs : ReadStep(p)]_vars
    /\ [](\A p \in Procs :
            ((Done(p, "Get") \/ Done(p, "FastGet")) /\ Stored(p)
                /\ result[p].err # "StoreUnavailable")
            => result[p].err = "nil" /\ result[p].data = putLog[fileID[p]].buffer)

\* the part of C15 that the code keeps: reads change nothing and return the
\* bytes that were put, or panic on the metadata
C15_BytesKept ==
    /\ [][\A p \in Procs : ReadStep(p)]_vars
    /\ [](\A p \in Procs :
            ((Done(p, "Get") \/ Done(p, "FastGet")) /\ Stored(p)
                /\ result[p].err \notin {"StoreUnavailable", "panic"})
            => result[p].err = "nil" /\ result[p].data = putLog[fileID[p]].buffer)

\* the byte range of the result buffer that the collector of caller p writes
\* for the i-th result it received: first byte and the byte after the last
RangeStart(p, i) == ResultOffset(received[p][i], i - 1, ReadChunkSize(fileDoc[p]))
RangeEnd(p, i) == RangeStart(p, i) + Len(received[p][i].data)

\* the results that caller p's collector copied into the buffer
Copied(p) == {i \in 1..Len(received[p]) : received[p][i].err = "nil"}

\* C16: in a FastGet the range written for the chunk of index i starts at
\* i * chunk_size and is as long as the chunk, it lies inside [0, length), and
\* the ranges of distinct chunk indices do not overlap.
C16_DisjointRanges ==
    \A p \in Procs :
        call[p].op = "FastGet"
        => /\ \A i \in Copied(p) :
                 /\ RangeStart(p, i) = received[p][i].index * fileDoc[p].chunk_size
                 /\ RangeStart(p, i) >= 0
                 /\ RangeEnd(p, i) <= fileDoc[p].length
           /\ \A i, j \in Copied(p) :
                 i # j => /\ received[p][i].index # received[p][j].index
                          /\ \/ RangeEnd(p, i) <= RangeStart(p, j)
                             \/ RangeEnd(p, j) <= RangeStart(p, i)

\* a FastGet copied three chunks, the short last chunk before the others
C16_Witness ==
    \E p \in Procs :
        /\ Done(p, "FastGet") /\ result[p].err = "nil"
        /\ Cardinality(Copied(p)) = 3
        /\ received[p][1].index = 2
        /\ Len(received[p][1].data) < fileDoc[p].chunk_size
        /\ RangeEnd(p, 1) = fileDoc[p].length

\* C17: whatever way the steps of concurrent Put, Get, FastGet and Delete
\* calls interleave and whichever store operations fail, every manifest in the
\* store has all of its ceil(length / chunk_size) chunks in the store, as long
\* as Delete was called for its id only after the Put of the id had returned.
C17_ManifestImpliesChunks ==
    \A d \in filesColl :
        d._id \notin stray
        => \A n \in 0..(CeilDiv(d.length, d.chunk_size) - 1) : FindChunk(d._id, n) # {}

\* why C17 needs its proviso: a Delete called with the id of a Put that had
\* not returned removed a chunk, and the Put then inserted its manifest
C17_StrayDelete ==
    \E d \in filesColl :
        d._id \in stray /\ \E n \in 0..(CeilDiv(d.length, d.chunk_size) - 1) : FindChunk(d._id, n) = {}

\* a Delete has removed its manifest and not yet its chunks, and the store
\* holds the manifest of another object of several chunks
C17_Witness ==
    \E p \in Procs :
        /\ pc[p] = "DeleteChunks" /\ ChunksOf(fileID[p]) # {}
        /\ \E d \in filesColl : d.length > d.chunk_size /\ d._id # fileID[p]

\* C18: a Get or a FastGet of an id that Put returned, with a Delete of that
\* id running at any point of it, ends with the bytes that were put and no
\* error, or with an error and no data; it never succeeds with other bytes.
C18_AllOrNothing ==
    \A p \in Procs :
        ((Done(p, "Get") \/ Done(p, "FastGet")) /\ call[p].issued)
        => \/ result[p].err = "nil" /\ result[p].data = putLog[fileID[p]].buffer
           \/ result[p].err # "nil" /\ result[p].data = NoData

\* a read that began before the Delete of its id removed the manifest
\* succeeded after it
C18_Witness ==
    \E p, q \in Procs :
        /\ (Done(p, "Get") \/ Done(p, "FastGet")) /\ call[p].issued
        /\ result[p].err = "nil"
        /\ call[q].op = "Delete" /\ fileID[q] = fileID[p] /\ pc[q] = "DeleteChunks"

\* a read lost a chunk to the Delete of its id after it had read the manifest
C18_WitnessError ==
    \E p, q \in Procs :
        /\ (Done(p, "Get") \/ Done(p, "FastGet")) /\ call[p].issued
        /\ fileDoc[p] # NoDoc /\ result[p].err = "NotFound"
        /\ call[q].op = "Delete" /\ fileID[q] = fileID[p] /\ pc[q] = "done"

\* C19: every Get that has begun ends, with data or with an error.
C19_GetTerminates ==
    \A p \in Procs : (pc[p] \in {"GetManifest", "GetLoop"}) ~> (pc[p] = "done" /\ call[p].op = "Get")

\* the reason: an iteration of the read loop that is not the last one moves
\* the offset forward
C19_OffsetIncreases ==
    [][\A p \in Procs : (pc[p] = "GetLoop" /\ pc'[p] = "GetLoop" /\ Acts(p)' # Acts(p))
                        => start'[p] > start[p]]_vars

\* a Get ended after as many iterations as the object has chunks
C19_Witness ==
    \E p \in Procs :
        /\ Done(p, "Get") /\ result[p].err = "nil"
        /\ fetches[p] = CeilDiv(MaxLen, ChunkSize)
        /\ start[p] = MaxLen

\* two Puts have succeeded, and the inserts of one of them were interleaved
\* with the chunk inserts of another Put
TwoPuts == Cardinality(returned) >= 2 /\ \E oid \in returned : putLog[oid].overlap

\* C20: when two Puts whose inserts interleaved have both succeeded, the ids
\* they returned differ, each of the two objects has the manifest and the
\* chunks of its own Put, and a Get of either id, with no store failure of its
\* own, returns the bytes and the metadata of that Put.
C20_PutsDoNotInterfere ==
    TwoPuts
    => /\ \A p, q \in Procs :
             (p # q /\ Done(p, "Put") /\ Done(q, "Put")
                 /\ result[p].err = "nil" /\ result[q].err = "nil")
             => result[p].fileId # result[q].fileId
       /\ StoredIntact
       /\ \A p \in Procs :
             (Done(p, "Get") /\ Stored(p) /\ result[p].err # "StoreUnavailable")
             => result[p] = OkResult(putLog[fileID[p]].buffer, putLog[fileID[p]].metadata)

\* the part of C20 that the code keeps: the ids differ, the objects are
\* intact and the Get returns the bytes of its own Put, or panics on the
\* metadata
C20_BytesKept ==
    TwoPuts
    => /\ \A p, q \in Procs :
             (p # q /\ Done(p, "Put") /\ Done(q, "Put")
                 /\ result[p].err = "nil" /\ result[q].err = "nil")
             => result[p].fileId # result[q].fileId
       /\ StoredIntact
       /\ \A p \in Procs :
             (Done(p, "Get") /\ Stored(p) /\ result[p].err \notin {"StoreUnavailable", "panic"})
             => result[p].err = "nil" /\ result[p].data = putLog[fileID[p]].buffer

\* two interleaved Puts of different payloads have succeeded and a Get of
\* one of the ids returned that Put's bytes
C20_Reached ==
    /\ TwoPuts
    /\ \E o1, o2 \in returned : putLog[o1].buffer # putLog[o2].buffer
    /\ \E p \in Procs : Done(p, "Get") /\ Stored(p) /\ result[p].err = "nil"
                        /\ putLog[fileID[p]].overlap

============================================================================
